---- MODULE Spec2Model ----
(***************************************************************************)
(* Model of the MCGS multi-agent pipeline: the orchestration graph built   *)
(* by build_graph (src/src/graph.py), the BuildState record threaded       *)
(* through its steps (src/src/state.py, src/src/main.py) and the state     *)
(* effects of the step functions planner_node, architect_node, dev_node,   *)
(* tests_node, security_node and pr_node.                                  *)
(*                                                                         *)
(* A step execution is one action; the evaluation of the outgoing-edge     *)
(* predicate of a step (dev_to_tests, tests_next, sec_next) is a separate  *)
(* action, taken after the step has returned.  A step that raises ends the *)
(* batch run (app.invoke propagates the exception): pc = "crashed".        *)
(***************************************************************************)
EXTENDS Integers, Sequences, FiniteSets, TLC

VARIABLES
    pc,      \* position of the graph run: the step to execute next, the edge
             \* predicate to evaluate next, "END" or "crashed"
    state,   \* the BuildState record (src/src/state.py)
    path,    \* history: the steps entered so far, in order
    ensure_calls, \* history: the number of calls of git_tools.ensure_branch
    plan_raw,     \* input: the text the planning backend returns
    plan_tasks,   \* input: the task list carried by the "tasks" member of
                  \* that text
    language,     \* input: the primary language the analyzer reports
    lint_env,     \* what the machine answers to the next lint run
    tests_env,    \* what the machine answers to the next test run
    audit_env,    \* what the machine answers to the next security audit
    results,      \* the results of the dispatch functions, once applied
    line,         \* interactive loop: the input line read last
    lines,        \* interactive loop: the number of lines read so far
    route_raw,    \* interactive loop: the text the routing backend returns
    intent,       \* interactive loop: the intent selected for the line
    printed,      \* interactive loop: what the loop printed last
    snapshot,     \* the file at the session path (.agent/state.json)
    project,      \* analyzer input: the files of the repository, in the
                  \* order the directory walk enumerates them
    analysis,     \* analyzer output: the structure it returns
    files,        \* dev input: the "files" list of the generated payload
    written       \* dev output: what the file loop of dev_node did

\* The inputs of a run; no step changes them.
inputs == <<plan_raw, plan_tasks, language>>

\* The answers of the machine to the external commands of the verification
\* steps; they change when dev rewrites the project.
envs == <<lint_env, tests_env, audit_env>>

\* The inputs and outputs of the project analyzer and of the file loop of
\* dev_node.
tools == <<project, analysis, files, written>>

\* The variables of the interactive loop (src/src/cli.py).
cli == <<line, lines, route_raw, intent, printed>>

vars == <<pc, state, path, ensure_calls, plan_raw, plan_tasks, language,
          lint_env, tests_env, audit_env, results,
          line, lines, route_raw, intent, printed,
          snapshot, project, analysis, files, written>>

----------------------------------------------------------------------------
(* Bounds and program constants *)

\* Cap on the number of step executions explored in one run.
MaxSteps == 13

\* The retry ceiling: the literal 3 of tests_next and sec_next.
Ceiling == 3

\* Longest backend text explored, in tokens.
MaxTextLen == 5

\* Longest backend task list explored.
MaxTasks == 3

\* Exit codes an external tool run can end with (0 is success).
ExitCodes == {0, 1}

\* Shapes of the text the planning backend returns, by how far
\* planner_node's parsing gets with it.
PlanKinds == {"direct", "extracted", "nojson", "badjson"}

\* Ways the try block of dev_node can end.
DevOutcomes == {"generated", "except"}

EdgePcs == {"dev_edge", "tests_edge", "security_edge"}

----------------------------------------------------------------------------
(* Log entries: a tag naming the message and the number it carries *)

Log(tag, n) == [tag |-> tag, n |-> n]

AppendAll(s, t) == s \o t

----------------------------------------------------------------------------
(* The state is a Python dict: a key can be absent (state.get(k, default)) *)
(* and an assignment adds it.                                              *)

Get(s, k, default) == IF k \in DOMAIN s THEN s[k] ELSE default

Put(s, k, v) == [x \in DOMAIN s \cup {k} |-> IF x = k THEN v ELSE s[x]]

----------------------------------------------------------------------------
(* Backend text and its parsing.  A text is a sequence of tokens: the two  *)
(* braces, "w" for a stretch of prose, "s" for a stretch that is a JSON    *)
(* value other than an object (a number, a string, a list), and one token  *)
(* per member of a JSON object, named by its key.                          *)

SeqsUpTo(S, n) == UNION {[1..k -> S] : k \in 0..n}

\* str.find / str.rfind: the 0-based index of the first / last occurrence,
\* or -1.
Find(raw, c) ==
    IF \E i \in DOMAIN raw : raw[i] = c
    THEN (CHOOSE i \in DOMAIN raw : raw[i] = c /\ \A j \in 1..(i - 1) : raw[j] # c) - 1
    ELSE -1

RFind(raw, c) ==
    IF \E i \in DOMAIN raw : raw[i] = c
    THEN (CHOOSE i \in DOMAIN raw : raw[i] = c /\ \A j \in (i + 1)..Len(raw) : raw[j] # c) - 1
    ELSE -1

\* raw[start:end] with Python's treatment of a negative start.
Slice(raw, start, end) ==
    LET lo == IF start < 0 THEN (IF start + Len(raw) < 0 THEN 0 ELSE start + Len(raw))
                           ELSE start
        hi == IF end > Len(raw) THEN Len(raw) ELSE end
    IN  SubSeq(raw, lo + 1, hi)

\* json.loads: a text parses when it is one non-object value, or an opening
\* brace, members and a closing brace; anything else is a decode error.
json_loads(text, members) ==
    IF text = <<"s">>
    THEN [ok |-> TRUE, kind |-> "scalar", keys |-> {}]
    ELSE IF /\ Len(text) >= 2
            /\ text[1] = "{"
            /\ text[Len(text)] = "}"
            /\ \A i \in 2..(Len(text) - 1) : text[i] \in members
         THEN [ok |-> TRUE, kind |-> "record",
               keys |-> {text[i] : i \in 2..(Len(text) - 1)}]
         ELSE [ok |-> FALSE, kind |-> "error", keys |-> {}]

----------------------------------------------------------------------------
(* main.py: the initial BuildState of a batch run *)

initial ==
    [ request      |-> "request",
      repo_path    |-> "repo",
      prd          |-> "",
      rfc          |-> "",
      tasks        |-> << >>,
      branch       |-> "",
      lint_ok      |-> FALSE,
      tests_ok     |-> FALSE,
      sec_ok       |-> FALSE,
      pr_url       |-> "",
      dev_attempts |-> 0,
      logs         |-> << >> ]

----------------------------------------------------------------------------
(* Step functions, as functions from the state on entry to the state on    *)
(* return.                                                                 *)

\* The tasks of the fallback plan planner_node synthesizes.
FallbackTasks ==
    << [id |-> "task1", title |-> "Implement feature"],
       [id |-> "task2", title |-> "Add tests"],
       [id |-> "task3", title |-> "Update documentation"] >>

\* The member keys a planning response can carry.
PlannerMembers == {"prd_md", "tasks"}

PlannerAlphabet == {"{", "}", "w", "s"} \cup PlannerMembers

PlannerTexts == SeqsUpTo(PlannerAlphabet, MaxTextLen)

\* The entries a backend task list can hold: records with canonical or
\* synonym keys, records without an id, and an entry that is not a record.
TaskItems ==
    { [id |-> "a", title |-> "x"],
      [id |-> "b", title |-> "x"],
      [id |-> "task2", title |-> "x"],
      [title |-> "x"],
      [task_id |-> "a", task_desc |-> "x"],
      [nondict |-> TRUE] }

TaskLists == SeqsUpTo(TaskItems, MaxTasks)

\* planner_node's parse of the raw text: which of its branches produces
\* data.
PlannerKind(raw) ==
    IF json_loads(raw, PlannerMembers).ok
    THEN "direct"
    ELSE LET start == Find(raw, "{")
             end   == RFind(raw, "}") + 1
         IN  IF start = -1 \/ end = 0
             THEN "nojson"
             ELSE IF json_loads(Slice(raw, start, end), PlannerMembers).ok
                  THEN "extracted"
                  ELSE "badjson"

\* The data planner_node goes on with.
PlannerData(raw) ==
    LET kind == PlannerKind(raw)
    IN  CASE kind = "direct"    -> json_loads(raw, PlannerMembers)
          [] kind = "extracted" -> json_loads(Slice(raw, Find(raw, "{"), RFind(raw, "}") + 1),
                                              PlannerMembers)
          [] OTHER              -> [ok |-> TRUE, kind |-> "record", keys |-> {"prd_md", "tasks"}]

\* PlannerOut(**data) accepts the data: a record with prd_md and tasks.
PlannerValid(raw) ==
    LET data == PlannerData(raw)
    IN  data.kind = "record" /\ {"prd_md", "tasks"} \subseteq data.keys

RECURSIVE ConvertFrom(_, _, _)
\* The loop of planner_node over data['tasks'], from entry i on, with the
\* entries converted so far.
ConvertFrom(tasks, i, converted_tasks) ==
    IF i > Len(tasks)
    THEN converted_tasks
    ELSE LET task == tasks[i]
         IN  IF "nondict" \in DOMAIN task
             THEN ConvertFrom(tasks, i + 1, converted_tasks)
             ELSE ConvertFrom(tasks, i + 1,
                      Append(converted_tasks,
                          [id    |-> Get(task, "task_id",
                                         Get(task, "id",
                                             "task" \o ToString(Len(converted_tasks) + 1))),
                           title |-> Get(task, "task_desc",
                                         Get(task, "title", "Untitled task"))]))

convert_tasks(tasks) == ConvertFrom(tasks, 1, << >>)

\* The log entries planner_node appends while parsing a response of the
\* given kind.
PlannerParseLogs(kind) ==
    <<Log("Planner raw response", 0)>> \o
    CASE kind = "direct"    -> << >>
      [] kind = "extracted" -> <<Log("JSON parse error", 0), Log("Extracted JSON", 0)>>
      [] kind = "nojson"    -> <<Log("JSON parse error", 0), Log("No JSON found", 0)>>
      [] kind = "badjson"   -> <<Log("JSON parse error", 0), Log("Extracted JSON", 0),
                                 Log("Extracted JSON parse error", 0)>>

planner_node(s, kind, tasks) ==
    [s EXCEPT !.prd   = IF kind \in {"nojson", "badjson"} THEN "fallback_prd" ELSE "prd_md",
              !.tasks = IF kind \in {"nojson", "badjson"} THEN FallbackTasks ELSE tasks,
              !.logs  = AppendAll(s.logs, PlannerParseLogs(kind)
                                          \o <<Log("Planner: PRD+tasks created", 0)>>)]

architect_node(s) ==
    [s EXCEPT !.rfc  = "rfc",
              !.logs = Append(s.logs, Log("Architect: RFC produced", 0))]

\* git_tools.ensure_branch returns the name it was given.
ensure_branch(name) == name

\* The log entries of dev_node's try block.
DevTryLogs(outcome) ==
    IF outcome = "generated"
    THEN <<Log("Dev: Analyzed project", 0), Log("Dev: Using model", 0),
           Log("Dev: LLM response received", 0), Log("Dev: summary", 0)>>
    ELSE <<Log("Dev: Error during development", 0), Log("Dev: Traceback", 0)>>

\* Mutant of branch_missing: the branch is ensured on every entry.
branch_missing_always(s) == TRUE

\* dev_node's test "not state.get('branch')".
branch_missing(s) == Get(s, "branch", "") = ""

\* Mutant of dev_node: the attempt is not counted.
dev_node_nocount(s, outcome) ==
    LET dev_attempts == Get(s, "dev_attempts", 0)
        b == IF branch_missing(s) THEN ensure_branch("feat/auto-agent") ELSE s.branch
    IN  Put(Put(s, "branch", b),
            "logs", AppendAll(s.logs,
                        <<Log("Dev: Starting development", dev_attempts)>>
                        \o DevTryLogs(outcome)))

dev_node(s, outcome) ==
    LET dev_attempts == Get(s, "dev_attempts", 0) + 1
        b == IF branch_missing(s) THEN ensure_branch("feat/auto-agent") ELSE s.branch
    IN  Put(Put(Put(s, "branch", b), "dev_attempts", dev_attempts),
            "logs", AppendAll(s.logs,
                        <<Log("Dev: Starting development", dev_attempts)>>
                        \o DevTryLogs(outcome)))

\* Mutant of tests_node: the returned state loses the attempt count.
tests_node_reset(s, lint_code, tests_code) ==
    [s EXCEPT !.lint_ok      = (lint_code = 0),
              !.tests_ok     = (tests_code = 0),
              !.dev_attempts = 0,
              !.logs         = AppendAll(s.logs, <<Log("Linter", lint_code),
                                                   Log("Tests", tests_code)>>)]

\* Mutant of tests_node: a flag that was true stays true.
tests_node_sticky(s, lint_code, tests_code) ==
    [s EXCEPT !.lint_ok  = s.lint_ok \/ (lint_code = 0),
              !.tests_ok = s.tests_ok \/ (tests_code = 0),
              !.logs     = AppendAll(s.logs, <<Log("Linter", lint_code),
                                               Log("Tests", tests_code)>>)]

tests_node(s, lint_code, tests_code) ==
    [s EXCEPT !.lint_ok  = (lint_code = 0),
              !.tests_ok = (tests_code = 0),
              !.logs     = AppendAll(s.logs, <<Log("Linter", lint_code),
                                               Log("Tests", tests_code)>>)]

\* Mutant of security_node: the log is replaced by the new entry.
security_node_overwrite(s, code) ==
    [s EXCEPT !.sec_ok = (code = 0),
              !.logs   = <<Log("pip-audit", code)>>]

security_node(s, code) ==
    [s EXCEPT !.sec_ok = (code = 0),
              !.logs   = Append(s.logs, Log("pip-audit", code))]

pr_node(s) ==
    [s EXCEPT !.pr_url = "pr_url",
              !.logs   = Append(s.logs, Log("PR", 0))]

----------------------------------------------------------------------------
(* Capability dispatch: tools/code_runner.py (used by tests_node) and      *)
(* tools/runners.py (used by security_node).                               *)

Languages ==
    {"python", "javascript", "typescript", "csharp", "java", "go", "rust",
     "php", "ruby", "unknown"}

\* What one subprocess invocation can do: end with an exit code, fail with
\* FileNotFoundError because the command is missing, or raise another
\* exception (PermissionError, TimeoutExpired, UnicodeDecodeError, ...).
Exit(c) == [kind |-> "exit", code |-> c]

NotFound == [kind |-> "notfound", code |-> 0]

Raised == [kind |-> "raise", code |-> 0]

Outcomes == {Exit(c) : c \in ExitCodes \cup {127}} \cup {NotFound, Raised}

\* What the machine answers to one recipe: the outcome of its first command,
\* the outcome of its fallback command, and the condition it tests besides
\* (the build file exists, the sources exist, stdout mentions "collected").
Envs == [first : Outcomes, second : Outcomes, flag : BOOLEAN]

\* A (code, output) pair returned by a recipe, or the exception that escaped
\* it.
Result(code, out) == [raised |-> FALSE, code |-> code, out |-> out]

Escapes == [raised |-> TRUE, code |-> 0, out |-> "exception"]

\* code_runner: try: subprocess.run(...) except Exception: return 1, ...
RunCaught(o) ==
    IF o.kind = "exit" THEN Result(o.code, "output") ELSE Result(1, "error")

\* The recipes of code_runner, by the shape of their code.
CodeRunnerRecipe(recipe, env) ==
    CASE recipe = "simple" ->
             RunCaught(env.first)
      [] recipe = "config" ->
             IF env.flag THEN RunCaught(env.first) ELSE Result(0, "noconfig")
      [] recipe = "fallback127" ->
             IF env.first.kind = "exit" /\ env.first.code = 127
             THEN RunCaught(env.second)
             ELSE RunCaught(env.first)
      [] recipe = "pytest" ->
             IF env.first.kind = "exit" /\ env.first.code # 0 /\ ~env.flag
             THEN RunCaught(env.second)
             ELSE RunCaught(env.first)
      [] recipe = "lint_else_build" ->
             IF env.first.kind = "exit"
             THEN Result(env.first.code, "output")
             ELSE IF env.flag THEN RunCaught(env.second) ELSE Result(0, "noconfig")

\* The dispatch tables of code_runner.
test_runners ==
    [python |-> "pytest", javascript |-> "config", typescript |-> "config",
     csharp |-> "simple", java |-> "config", go |-> "simple", rust |-> "simple",
     php |-> "simple", ruby |-> "simple"]

build_runners ==
    [python |-> "simple", javascript |-> "config", typescript |-> "config",
     csharp |-> "simple", java |-> "config", go |-> "simple", rust |-> "simple",
     php |-> "config", ruby |-> "config"]

linters ==
    [python |-> "fallback127", javascript |-> "simple", typescript |-> "simple",
     csharp |-> "simple", java |-> "lint_else_build", go |-> "fallback127",
     rust |-> "simple", php |-> "lint_else_build", ruby |-> "lint_else_build"]

run_project_tests(lang, env) ==
    IF lang \in DOMAIN test_runners
    THEN CodeRunnerRecipe(test_runners[lang], env)
    ELSE Result(0, "norunner")

run_project_build(lang, env) ==
    IF lang \in DOMAIN build_runners
    THEN CodeRunnerRecipe(build_runners[lang], env)
    ELSE Result(0, "norunner")

run_project_linting(lang, env) ==
    IF lang \in DOMAIN linters
    THEN CodeRunnerRecipe(linters[lang], env)
    ELSE Result(0, "norunner")

\* runners: try: return run(...) except FileNotFoundError: return 1, ...
\* Any other exception of shell.run escapes.
RunLegacy(o) ==
    CASE o.kind = "exit"     -> Result(o.code, "output")
      [] o.kind = "notfound" -> Result(1, "notfound")
      [] OTHER               -> Escapes

\* The recipes of runners.py, by the shape of their code.
RunnersRecipe(recipe, env) ==
    CASE recipe = "run" ->
             RunLegacy(env.first)
      [] recipe = "build_tool" ->
             IF env.flag THEN RunLegacy(env.first) ELSE Result(1, "noconfig")
      [] recipe = "run_else_run" ->
             IF env.first.kind = "notfound"
             THEN RunLegacy(env.second)
             ELSE RunLegacy(env.first)

RunnersLanguages ==
    {"python", "javascript", "typescript", "csharp", "java", "go", "rust"}

run_python_audit(env) == RunnersRecipe("run", env)

run_pip_audit(env) == run_python_audit(env)

run_tests(lang, env) ==
    IF lang \in RunnersLanguages
    THEN RunnersRecipe(IF lang = "java" THEN "build_tool" ELSE "run", env)
    ELSE Result(1, "norunner")

run_linter(lang, env) ==
    IF lang \in RunnersLanguages
    THEN RunnersRecipe(IF lang = "go" THEN "run_else_run" ELSE "run", env)
    ELSE Result(0, "norunner")

run_security_audit(lang, env) ==
    IF lang \in RunnersLanguages
    THEN RunnersRecipe("run", env)
    ELSE Result(0, "norunner")

\* The six dispatch functions, applied to one language and one answer of the
\* machine.
DispatchFunctions ==
    {"run_project_tests", "run_project_build", "run_project_linting",
     "run_tests", "run_linter", "run_security_audit"}

Dispatch(f, lang, env) ==
    CASE f = "run_project_tests"   -> run_project_tests(lang, env)
      [] f = "run_project_build"   -> run_project_build(lang, env)
      [] f = "run_project_linting" -> run_project_linting(lang, env)
      [] f = "run_tests"           -> run_tests(lang, env)
      [] f = "run_linter"          -> run_linter(lang, env)
      [] f = "run_security_audit"  -> run_security_audit(lang, env)

----------------------------------------------------------------------------
(* Edge predicates of build_graph: the route each returns, and the state   *)
(* it leaves behind.                                                       *)

\* Mutant of dev_to_tests: the tests step is skipped.
dev_to_tests_skip(s) == "security"

dev_to_tests(s) == "tests"

\* Mutant of tests_next: the ceiling test is strict.
tests_next_strict(s) ==
    IF Get(s, "dev_attempts", 0) > Ceiling
    THEN "security"
    ELSE IF s.tests_ok /\ s.lint_ok THEN "security" ELSE "dev"

\* Mutant of tests_next: the lint flag is ignored.
tests_next_nolint(s) ==
    IF Get(s, "dev_attempts", 0) >= Ceiling
    THEN "security"
    ELSE IF s.tests_ok THEN "security" ELSE "dev"

tests_next(s) ==
    IF Get(s, "dev_attempts", 0) >= Ceiling
    THEN "security"
    ELSE IF s.tests_ok /\ s.lint_ok THEN "security" ELSE "dev"

tests_next_state(s) ==
    IF Get(s, "dev_attempts", 0) >= Ceiling
    THEN [s EXCEPT !.logs = Append(s.logs, Log("Max dev attempts reached, proceeding to security", 0))]
    ELSE s

\* Mutant of sec_next: no ceiling test.
sec_next_noceiling(s) ==
    IF s.sec_ok THEN "pr" ELSE "dev"

\* Mutant of sec_next: a failed audit is retried one attempt too long.
sec_next_strict(s) ==
    IF Get(s, "dev_attempts", 0) > Ceiling
    THEN "pr"
    ELSE IF s.sec_ok THEN "pr" ELSE "dev"

\* Mutant of sec_next: the audit result is ignored.
sec_next_always_pr(s) == "pr"

\* Mutant of sec_next: a failed audit sends the run back to tests.
sec_next_retest(s) ==
    IF Get(s, "dev_attempts", 0) >= Ceiling
    THEN "pr"
    ELSE IF s.sec_ok THEN "pr" ELSE "tests"

sec_next(s) ==
    IF Get(s, "dev_attempts", 0) >= Ceiling
    THEN "pr"
    ELSE IF s.sec_ok THEN "pr" ELSE "dev"

sec_next_state(s) ==
    IF Get(s, "dev_attempts", 0) >= Ceiling
    THEN [s EXCEPT !.logs = Append(s.logs, Log("Max dev attempts reached, proceeding to PR", 0))]
    ELSE s

----------------------------------------------------------------------------
(* The run *)

\* The planning responses of the batch runs explored: one per branch of
\* planner_node's parse, and one that parses but lacks a required field.
BatchPlanTexts ==
    { <<"{", "prd_md", "tasks", "}">>,
      <<"w", "{", "prd_md", "tasks", "}">>,
      <<"w">>,
      <<"{", "w", "}">>,
      <<"{", "tasks", "}">> }

BatchPlanTasks == << [id |-> "a", title |-> "x"], [id |-> "b", title |-> "x"] >>

\* The answers of the machine explored in a batch run: each command runs and
\* ends with one of ExitCodes; the audit can also raise.
BatchEnvs == {[first |-> Exit(c), second |-> Exit(c), flag |-> TRUE] : c \in ExitCodes}

BatchAuditEnvs == BatchEnvs \cup {[first |-> Raised, second |-> Raised, flag |-> TRUE]}

NoResults == [f \in {} |-> Escapes]

\* No line read: the interactive loop is not running, or has not read yet.
NoLine == [kind |-> "none", word |-> ""]

\* No file at the session path.
Absent == [kind |-> "absent"]

\* The analyzer and the file loop have not run.
NoAnalysis == [primary_language |-> "unknown", has_tests |-> FALSE, frameworks |-> {}]

NoWritten == [attempted |-> << >>, written |-> {}, failed |-> {}, aborted |-> FALSE,
              setup |-> FALSE]

NoTools ==
    /\ project = << >>
    /\ analysis = NoAnalysis
    /\ files = << >>
    /\ written = NoWritten

NoCli ==
    /\ line = NoLine
    /\ lines = 0
    /\ route_raw = << >>
    /\ intent = ""
    /\ printed = ""

Start ==
    /\ pc = "plan"
    /\ state = initial
    /\ path = << >>
    /\ ensure_calls = 0
    /\ results = NoResults
    /\ NoCli
    /\ NoTools
    /\ snapshot = Absent

\* Nothing has been verified yet: the answers are set by the first dev.
FirstEnv == [first |-> Exit(0), second |-> Exit(0), flag |-> TRUE]

Init ==
    /\ Start
    /\ plan_raw \in BatchPlanTexts
    /\ plan_tasks = BatchPlanTasks
    /\ language = "python"
    /\ lint_env = FirstEnv /\ tests_env = FirstEnv /\ audit_env = FirstEnv

\* The plan step alone, over every backend text and task list.
InitPlanner ==
    /\ Start
    /\ \/ plan_raw \in PlannerTexts /\ plan_tasks = BatchPlanTasks
       \/ plan_raw = <<"{", "prd_md", "tasks", "}">> /\ plan_tasks \in TaskLists
    /\ language = "python"
    /\ lint_env = FirstEnv /\ tests_env = FirstEnv /\ audit_env = FirstEnv

Enter(step) ==
    /\ pc = step
    /\ Len(path) < MaxSteps
    /\ path' = Append(path, step)

\* plan returns; graph.add_edge("plan", "design")
Plan ==
    /\ Enter("plan")
    /\ PlannerValid(plan_raw)
    /\ state' = planner_node(state, PlannerKind(plan_raw), convert_tasks(plan_tasks))
    /\ pc' = "design"
    /\ UNCHANGED ensure_calls
    /\ UNCHANGED <<inputs, envs, results, cli, tools, snapshot>>

\* plan raises: the backend call fails before anything is logged, or the
\* parsed payload fails PlannerOut validation after the parse was logged
PlanRaises ==
    /\ Enter("plan")
    /\ \/ state' = state
       \/ /\ ~PlannerValid(plan_raw)
          /\ state' = [state EXCEPT !.logs = AppendAll(state.logs,
                                                 PlannerParseLogs(PlannerKind(plan_raw)))]
    /\ pc' = "crashed"
    /\ UNCHANGED ensure_calls
    /\ UNCHANGED <<inputs, envs, results, cli, tools, snapshot>>

\* design returns; graph.add_edge("design", "dev")
Design ==
    /\ Enter("design")
    /\ state' = architect_node(state)
    /\ pc' = "dev"
    /\ UNCHANGED ensure_calls
    /\ UNCHANGED <<inputs, envs, results, cli, tools, snapshot>>

\* design raises: in the backend call, or while persisting the artifacts
DesignRaises ==
    /\ Enter("design")
    /\ \/ state' = state
       \/ state' = architect_node(state)
    /\ pc' = "crashed"
    /\ UNCHANGED ensure_calls
    /\ UNCHANGED <<inputs, envs, results, cli, tools, snapshot>>

Dev ==
    /\ Enter("dev")
    /\ \E outcome \in DevOutcomes : state' = dev_node(state, outcome)
    /\ ensure_calls' = IF branch_missing(state) THEN ensure_calls + 1 ELSE ensure_calls
    /\ pc' = "dev_edge"
    \* the project dev leaves behind decides what the verifications will find
    /\ lint_env' \in BatchEnvs
    /\ tests_env' \in BatchEnvs
    /\ audit_env' \in BatchAuditEnvs
    /\ UNCHANGED <<inputs, results, cli, tools, snapshot>>

\* dev raises in ensure_branch (shell.run does not catch), which dev_node
\* calls before it counts the attempt
DevRaises ==
    /\ Enter("dev")
    /\ branch_missing(state)
    /\ state' = state
    /\ ensure_calls' = ensure_calls + 1
    /\ pc' = "crashed"
    /\ UNCHANGED <<inputs, envs, results, cli, tools, snapshot>>

DevToTests ==
    /\ pc = "dev_edge"
    /\ pc' = dev_to_tests(state)
    /\ UNCHANGED <<state, path, ensure_calls>>
    /\ UNCHANGED <<inputs, envs, results, cli, tools, snapshot>>

Tests ==
    /\ Enter("tests")
    /\ state' = tests_node(state, run_project_linting(language, lint_env).code,
                                  run_project_tests(language, tests_env).code)
    /\ pc' = "tests_edge"
    /\ UNCHANGED ensure_calls
    /\ UNCHANGED <<inputs, envs, results, cli, tools, snapshot>>

TestsNext ==
    /\ pc = "tests_edge"
    /\ pc' = tests_next(state)
    /\ state' = tests_next_state(state)
    /\ UNCHANGED <<path, ensure_calls>>
    /\ UNCHANGED <<inputs, envs, results, cli, tools, snapshot>>

Security ==
    /\ Enter("security")
    /\ ~run_pip_audit(audit_env).raised
    /\ state' = security_node(state, run_pip_audit(audit_env).code)
    /\ pc' = "security_edge"
    /\ UNCHANGED ensure_calls
    /\ UNCHANGED <<inputs, envs, results, cli, tools, snapshot>>

\* security raises: an exception of shell.run other than FileNotFoundError
SecurityRaises ==
    /\ Enter("security")
    /\ run_pip_audit(audit_env).raised
    /\ state' = state
    /\ pc' = "crashed"
    /\ UNCHANGED ensure_calls
    /\ UNCHANGED <<inputs, envs, results, cli, tools, snapshot>>

SecNext ==
    /\ pc = "security_edge"
    /\ pc' = sec_next(state)
    /\ state' = sec_next_state(state)
    /\ UNCHANGED <<path, ensure_calls>>
    /\ UNCHANGED <<inputs, envs, results, cli, tools, snapshot>>

\* pr returns; graph.add_edge("pr", END)
Pr ==
    /\ Enter("pr")
    /\ state' = pr_node(state)
    /\ pc' = "END"
    /\ UNCHANGED ensure_calls
    /\ UNCHANGED <<inputs, envs, results, cli, tools, snapshot>>

\* dev in a run in which every step returns: the audit it sets up does not
\* raise.
DevReturns ==
    /\ Dev
    /\ ~run_pip_audit(audit_env').raised

\* The steps and edges of a run in which every step returns.
NextReturns ==
    \/ Plan
    \/ Design
    \/ DevReturns
    \/ DevToTests
    \/ Tests
    \/ TestsNext
    \/ Security
    \/ SecNext
    \/ Pr

Next ==
    \/ Plan
    \/ PlanRaises
    \/ Design
    \/ DesignRaises
    \/ Dev
    \/ DevRaises
    \/ DevToTests
    \/ Tests
    \/ TestsNext
    \/ Security
    \/ SecurityRaises
    \/ SecNext
    \/ Pr

Spec == Init /\ [][Next]_vars

\* A batch run in which every step execution returns: the graph runtime
\* keeps stepping until END.
\* The runs in which the plan step returns: the backend text passes
\* planner_node's validation.
InitReturns ==
    /\ Init
    /\ PlannerValid(plan_raw)

LiveSpec == InitReturns /\ [][NextReturns]_vars /\ WF_vars(NextReturns)

\* The plan step applied to every backend response.
NextPlanner ==
    \/ Plan
    \/ PlanRaises

PlannerSpec == InitPlanner /\ [][NextPlanner]_vars

\* The verification steps and the dispatch functions over every language and
\* every answer of the machine: the run is taken after its first dev step.
AfterFirstDev ==
    dev_node(architect_node(planner_node(initial, "direct",
                                         convert_tasks(BatchPlanTasks))),
             "generated")

InitVerify ==
    /\ state = AfterFirstDev
    /\ path = <<"plan", "design", "dev">>
    /\ ensure_calls = 1
    /\ results = NoResults
    /\ NoCli
    /\ NoTools
    /\ snapshot = Absent
    /\ plan_raw = <<"{", "prd_md", "tasks", "}">>
    /\ plan_tasks = BatchPlanTasks
    /\ \/ /\ pc = "tests"
          /\ language \in Languages
          /\ lint_env \in Envs /\ tests_env \in Envs /\ audit_env = FirstEnv
       \/ /\ pc = "security"
          /\ language = "python"
          /\ lint_env = FirstEnv /\ tests_env = FirstEnv /\ audit_env \in Envs
       \/ /\ pc = "dispatch"
          /\ language \in Languages
          /\ lint_env \in Envs /\ tests_env = FirstEnv /\ audit_env = FirstEnv

\* Each dispatch function is called with the language and one answer of the
\* machine.
ApplyDispatch ==
    /\ pc = "dispatch"
    /\ results' = [f \in DispatchFunctions |-> Dispatch(f, language, lint_env)]
    /\ pc' = "dispatched"
    /\ UNCHANGED <<state, path, ensure_calls, inputs, envs, cli, tools, snapshot>>

NextVerify ==
    \/ Tests
    \/ TestsNext
    \/ Security
    \/ SecurityRaises
    \/ SecNext
    \/ ApplyDispatch

VerifySpec == InitVerify /\ [][NextVerify]_vars

----------------------------------------------------------------------------
(* The intent router (agents/router.py) and the interactive loop (cli.py). *)

INTENTS == {"plan", "design", "dev", "tests", "security", "pr", "status", "help"}

ActionNames == {"plan", "design", "dev", "tests", "security", "pr"}

\* The members a routing payload can hold: an intent the router knows, an
\* intent it does not know, and the arguments.
IntentMembers == {"intent:tests", "intent:deploy"}

RouterMembers == IntentMembers \cup {"args"}

RouterAlphabet == {"{", "}", "w"} \cup RouterMembers

RouterTexts == SeqsUpTo(RouterAlphabet, MaxTextLen)

\* The text of a routing call whose chat.invoke raised instead of returning.
ChatFailed == <<"exception">>

IntentOf(member) == IF member = "intent:tests" THEN "tests" ELSE "deploy"

IsIntentMember(t) == t \in IntentMembers

\* route(text, state): the RouteOut it returns, or the exception it raises.
route(raw) ==
    IF raw = ChatFailed
    THEN [raised |-> TRUE, intent |-> ""]
    ELSE LET text == IF json_loads(raw, RouterMembers).ok
                     THEN raw
                     ELSE Slice(raw, Find(raw, "{"), RFind(raw, "}") + 1)
             data == json_loads(text, RouterMembers)
             given == SelectSeq(text, IsIntentMember)
         IN  IF ~data.ok \/ data.kind # "record" \/ given = << >>
             THEN [raised |-> TRUE, intent |-> ""]
             ELSE LET named == IntentOf(given[Len(given)])
                  IN  [raised |-> FALSE,
                       intent |-> IF named \in INTENTS THEN named ELSE "help"]

\* The state Session.init_if_empty creates: it has no dev_attempts key.
session_initial ==
    [ request   |-> "request",
      repo_path |-> "repo",
      prd       |-> "",
      rfc       |-> "",
      tasks     |-> << >>,
      branch    |-> "",
      lint_ok   |-> FALSE,
      tests_ok  |-> FALSE,
      sec_ok    |-> FALSE,
      pr_url    |-> "",
      logs      |-> << >> ]

\* json.dump and json.load of one value of the state, by the type of its key.
BoolKeys == {"lint_ok", "tests_ok", "sec_ok"}

NumKeys == {"dev_attempts"}

json_dump_value(k, v) ==
    IF k \in BoolKeys THEN (IF v THEN "true" ELSE "false")
    ELSE IF k \in NumKeys THEN <<"number", v>>
    ELSE <<"text", v>>

json_load_value(k, t) ==
    IF k \in BoolKeys THEN t = "true" ELSE t[2]

json_dump(s) == [k \in DOMAIN s |-> json_dump_value(k, s[k])]

json_load(doc) == [k \in DOMAIN doc |-> json_load_value(k, doc[k])]

\* The file Session.save leaves at the session path.
SessionFile(s) == [kind |-> "json", doc |-> json_dump(s)]

\* A file at the session path that holds no JSON document (zero bytes, or a
\* document cut short).
NotJson == [kind |-> "notjson"]

EmptyState == [k \in {} |-> ""]

\* Session.__init__: the state it loads, or the exception of json.load.
Session(file) ==
    CASE file.kind = "absent"  -> [raised |-> FALSE, state |-> EmptyState]
      [] file.kind = "json"    -> [raised |-> FALSE, state |-> json_load(file.doc)]
      [] file.kind = "notjson" -> [raised |-> TRUE, state |-> EmptyState]

\* Session.init_if_empty: the state it returns and the file it leaves.
init_if_empty(loaded, file, repo_path, request) ==
    IF DOMAIN loaded = {}
    THEN LET fresh == [session_initial EXCEPT !.repo_path = repo_path,
                                              !.request = request]
         IN  [state |-> fresh, file |-> SessionFile(fresh)]
    ELSE [state |-> loaded, file |-> file]

\* Mutant: the snapshot is written whether the step raised or not.
SnapshotAfter_always(raised, s, file) == SessionFile(s)

\* cli.py:74-75: sess.update(state) runs only when fn(state) returned.
SnapshotAfter(raised, s, file) == IF raised THEN file ELSE SessionFile(s)

\* The input lines, after strip(): end of input, an exit command, an empty
\* line, a slash command with the word that follows the slash ("" when
\* nothing follows), and free text.
InputLines ==
    {[kind |-> k, word |-> ""] : k \in {"eof", "exit", "empty", "text"}}
        \cup {[kind |-> "slash", word |-> w] : w \in INTENTS \cup {"bogus", ""}}

\* The texts of the routing backend explored in a session.
BatchRouterTexts ==
    { <<"{", "intent:tests", "}">>,
      <<"w", "{", "intent:tests", "args", "}">>,
      <<"{", "intent:deploy", "}">>,
      <<"w">>,
      ChatFailed }

\* Lines each session reads at most.
MaxLines == 3

\* The ways fn(state) can end for a step function of the loop: the state it
\* leaves behind and whether it raised.
Returned(s) == [raised |-> FALSE, state |-> s]

Raising(s) == [raised |-> TRUE, state |-> s]

StepOutcomes(step, s) ==
    CASE step = "plan" ->
             {Raising(s)} \cup
             (IF PlannerValid(plan_raw)
              THEN {Returned(planner_node(s, PlannerKind(plan_raw),
                                          convert_tasks(plan_tasks)))}
              ELSE {Raising([s EXCEPT !.logs = AppendAll(s.logs,
                                     PlannerParseLogs(PlannerKind(plan_raw)))])})
      [] step = "design" ->
             {Raising(s), Raising(architect_node(s)), Returned(architect_node(s))}
      [] step = "dev" ->
             {Returned(dev_node(s, outcome)) : outcome \in DevOutcomes} \cup
             (IF branch_missing(s) THEN {Raising(s)} ELSE {})
      [] step = "tests" ->
             {Returned(tests_node(s, run_project_linting(language, lint_env).code,
                                     run_project_tests(language, tests_env).code))}
      [] step = "security" ->
             IF run_pip_audit(audit_env).raised
             THEN {Raising(s)}
             ELSE {Returned(security_node(s, run_pip_audit(audit_env).code))}
      [] step = "pr" ->
             {Returned(pr_node(s))}

\* The texts of the planning backend explored in a session: one that
\* validates and one that does not.
CliPlanTexts == { <<"{", "prd_md", "tasks", "}">>, <<"{", "tasks", "}">> }

InitCli ==
    /\ pc = "prompt"
    /\ state = session_initial
    /\ path = << >>
    /\ ensure_calls = 0
    /\ results = NoResults
    /\ NoCli
    /\ NoTools
    /\ snapshot = SessionFile(session_initial)
    /\ plan_raw \in CliPlanTexts
    /\ plan_tasks = BatchPlanTasks
    /\ language = "python"
    /\ lint_env \in BatchEnvs /\ tests_env \in BatchEnvs
    /\ audit_env \in BatchAuditEnvs

\* cli.py:42-59: read a line; leave on end of input or an exit command, skip
\* an empty line, take the word after a slash as the intent, or ask the
\* router.
ReadLine ==
    /\ pc = "prompt"
    /\ lines < MaxLines
    /\ lines' = lines + 1
    /\ \E l \in InputLines :
          /\ line' = l
          /\ CASE l.kind \in {"eof", "exit"} ->
                     pc' = "exited" /\ UNCHANGED <<intent, route_raw>>
                [] l.kind = "empty" ->
                     pc' = "prompt" /\ UNCHANGED <<intent, route_raw>>
                [] l.kind = "slash" /\ l.word = "" ->
                     \* user[1:].split()[0] raises IndexError
                     pc' = "crashed" /\ UNCHANGED <<intent, route_raw>>
                [] l.kind = "slash" /\ l.word # "" ->
                     /\ pc' = "selected"
                     /\ intent' = IF l.word \in ActionNames \cup {"status", "help"}
                                  THEN l.word ELSE "help"
                     /\ UNCHANGED route_raw
                [] l.kind = "text" ->
                     /\ pc' = "routing"
                     /\ route_raw' \in BatchRouterTexts
                     /\ UNCHANGED intent
    /\ UNCHANGED <<state, path, ensure_calls, inputs, envs, results, printed, tools, snapshot>>

\* cli.py:58-59: r = route(user, state) returns.
Route ==
    /\ pc = "routing"
    /\ ~route(route_raw).raised
    /\ intent' = route(route_raw).intent
    /\ pc' = "selected"
    /\ UNCHANGED <<state, path, ensure_calls, inputs, envs, results, tools, snapshot>>
    /\ UNCHANGED <<line, lines, route_raw, printed>>

\* cli.py:58: route raises; the call is outside any try.
RouteRaises ==
    /\ pc = "routing"
    /\ route(route_raw).raised
    /\ pc' = "crashed"
    /\ UNCHANGED <<state, path, ensure_calls, inputs, envs, results, cli, tools, snapshot>>

\* cli.py:61-71: status and help print and go back to the prompt; any other
\* intent selects its step function.
Select ==
    /\ pc = "selected"
    /\ IF intent \in {"status", "help"}
       THEN pc' = "prompt" /\ printed' = intent
       ELSE IF intent \in ActionNames
            THEN pc' = "step" /\ UNCHANGED printed
            ELSE pc' = "prompt" /\ printed' = "no action"
    /\ UNCHANGED <<state, path, ensure_calls, inputs, envs, results, tools, snapshot>>
    /\ UNCHANGED <<line, lines, route_raw, intent>>

\* Where the loop is after fn(state) ended.
AfterStep_unguarded(raised) == IF raised THEN "crashed" ELSE "prompt"

\* cli.py:73-78: both the try body and the except handler fall through to
\* the next iteration of the loop.
AfterStep(raised) == "prompt"

\* cli.py:73-78: try: state = fn(state); sess.update(state); print("ok> ...")
\* except Exception as e: print("error>", e)
CliStep ==
    /\ pc = "step"
    /\ \E o \in StepOutcomes(intent, state) :
          /\ state' = o.state
          /\ snapshot' = SnapshotAfter(o.raised, o.state, snapshot)
          /\ printed' = IF o.raised THEN "error" ELSE "ok"
          /\ pc' = AfterStep(o.raised)
    /\ ensure_calls' = IF intent = "dev" /\ branch_missing(state)
                       THEN ensure_calls + 1 ELSE ensure_calls
    /\ IF intent = "dev"
       THEN /\ lint_env' \in BatchEnvs
            /\ tests_env' \in BatchEnvs
            /\ audit_env' \in BatchAuditEnvs
       ELSE UNCHANGED envs
    /\ UNCHANGED <<path, inputs, results, tools>>
    /\ UNCHANGED <<line, lines, route_raw, intent>>

NextCli ==
    \/ ReadLine
    \/ Route
    \/ RouteRaises
    \/ Select
    \/ CliStep

CliSpec == InitCli /\ [][NextCli]_vars

\* The router over every text of the backend.
InitRouter ==
    /\ pc = "routing"
    /\ state = session_initial
    /\ path = << >>
    /\ ensure_calls = 0
    /\ results = NoResults
    /\ NoTools
    /\ snapshot = SessionFile(session_initial)
    /\ line = [kind |-> "text", word |-> ""]
    /\ lines = 1
    /\ route_raw \in RouterTexts
    /\ intent = ""
    /\ printed = ""
    /\ plan_raw = <<"{", "prd_md", "tasks", "}">>
    /\ plan_tasks = BatchPlanTasks
    /\ language = "python"
    /\ lint_env = FirstEnv /\ tests_env = FirstEnv /\ audit_env = FirstEnv

NextRouter ==
    \/ Route
    \/ RouteRaises

RouterSpec == InitRouter /\ [][NextRouter]_vars

----------------------------------------------------------------------------
(* Session resumption (sessions.py)                                        *)

\* States an earlier session can have saved.
SessionStates ==
    LET flags == {[session_initial EXCEPT !.lint_ok = l, !.tests_ok = t,
                                          !.sec_ok = c, !.branch = b] :
                     l \in BOOLEAN, t \in BOOLEAN, c \in BOOLEAN,
                     b \in {"", "feat/auto-agent"}}
    IN  flags \cup {Put(s, "dev_attempts", n) : s \in flags, n \in 1..Ceiling}

\* What can be at the session path when the program starts: nothing, a file
\* that is not JSON, the empty document, or a saved state.
SessionFiles ==
    {Absent, NotJson, SessionFile(EmptyState)} \cup {SessionFile(s) : s \in SessionStates}

RepoPaths == {"repo", "other"}

Requests == {"request", ""}

InitSession ==
    /\ pc = "session"
    /\ state = EmptyState
    /\ snapshot \in SessionFiles
    /\ path = << >>
    /\ ensure_calls = 0
    /\ results = NoResults
    /\ NoCli
    /\ NoTools
    /\ plan_raw = <<"{", "prd_md", "tasks", "}">>
    /\ plan_tasks = BatchPlanTasks
    /\ language = "python"
    /\ lint_env = FirstEnv /\ tests_env = FirstEnv /\ audit_env = FirstEnv

\* cli.py:35-36: sess = Session(); state = sess.init_if_empty(...)
OpenSession ==
    /\ pc = "session"
    /\ ~Session(snapshot).raised
    /\ \E repo_path \in RepoPaths, request \in Requests :
          LET opened == init_if_empty(Session(snapshot).state, snapshot,
                                      repo_path, request)
          IN  state' = opened.state /\ snapshot' = opened.file
    /\ pc' = "opened"
    /\ UNCHANGED <<path, ensure_calls, inputs, envs, results, cli, tools>>

\* cli.py:35: json.load raises in Session.__init__; nothing catches it.
OpenSessionRaises ==
    /\ pc = "session"
    /\ Session(snapshot).raised
    /\ pc' = "crashed"
    /\ UNCHANGED <<state, path, ensure_calls, inputs, envs, results, cli, tools, snapshot>>

\* A later Session on the same path.
Resume ==
    /\ pc = "opened"
    /\ ~Session(snapshot).raised
    /\ state' = Session(snapshot).state
    /\ pc' = "resumed"
    /\ UNCHANGED <<path, ensure_calls, inputs, envs, results, cli, tools, snapshot>>

NextSession ==
    \/ OpenSession
    \/ OpenSessionRaises
    \/ Resume

SessionSpec == InitSession /\ [][NextSession]_vars

----------------------------------------------------------------------------
(* The project analyzer (tools/language_detector.py)                       *)

\* The file names explored, each standing for what the analyzer reads from
\* it: its extension, whether it matches a test pattern, and the framework
\* patterns its path contains.
FileNames == {"main.py", "manage.py", "app.js", "main.go", "main_test.go", "go.mod"}

get_file_extension(name) ==
    CASE name \in {"main.py", "manage.py"}      -> ".py"
      [] name = "app.js"                        -> ".js"
      [] name \in {"main.go", "main_test.go"}   -> ".go"
      [] OTHER                                  -> ".mod"

\* extension_map.get(ext); "none" stands for None.
extension_to_language(ext) ==
    CASE ext = ".py" -> "python"
      [] ext = ".js" -> "javascript"
      [] ext = ".go" -> "go"
      [] OTHER       -> "none"

\* The position of a language in extension_map.
TableOrder(lang) ==
    CASE lang = "python"     -> 1
      [] lang = "javascript" -> 2
      [] lang = "go"         -> 13
      [] OTHER               -> 99

LanguageOf(file) == extension_to_language(get_file_extension(file.name))

\* any(pattern in file_path for pattern in test_patterns): "_test." is one
\* of the patterns.
MatchesTestPattern(name) == name = "main_test.go"

\* The languages that have framework patterns.
FrameworkLanguages == {"python", "javascript", "csharp", "java"}

\* The frameworks whose patterns occur in a text, for the texts explored.
FrameworksIn(lang, text) ==
    CASE lang = "python" /\ text = "from flask import Flask" -> {"flask"}
      [] lang = "python" /\ text = "Error reading file: Permission denied: manage.py"
                                                          -> {"django"}
      [] lang = "javascript" /\ text = "import React"       -> {"react"}
      [] OTHER                                             -> {}

\* read_file_content: the content, "" when the file is not found, and the
\* text of the error for any other exception; the error text of open()
\* holds the path.
read_file_content(file) ==
    CASE file.readable = "ok"      -> file.content
      [] file.readable = "missing" -> ""
      [] OTHER -> IF file.name = "manage.py"
                  THEN "Error reading file: Permission denied: manage.py"
                  ELSE "Error reading file: Permission denied"

\* language_counts: the tally of a language, and the position of the first
\* file of that language, which is where the dict got its key.
Tally(files_, lang) == Cardinality({i \in DOMAIN files_ : LanguageOf(files_[i]) = lang})

FirstSeen(files_, lang) ==
    CHOOSE i \in DOMAIN files_ :
        /\ LanguageOf(files_[i]) = lang
        /\ \A j \in 1..(i - 1) : LanguageOf(files_[j]) # lang

Tallied(files_) == {LanguageOf(files_[i]) : i \in DOMAIN files_} \ {"none"}

\* max(language_counts, key=language_counts.get): the first key, in the
\* order of insertion, among those with the highest tally.
primary_language(files_) ==
    IF Tallied(files_) = {}
    THEN "unknown"
    ELSE CHOOSE l \in Tallied(files_) :
             \A m \in Tallied(files_) :
                 \/ Tally(files_, m) < Tally(files_, l)
                 \/ /\ Tally(files_, m) = Tally(files_, l)
                    /\ FirstSeen(files_, l) <= FirstSeen(files_, m)

detect_frameworks(files_) ==
    LET lang == primary_language(files_)
    IN  IF lang \in FrameworkLanguages
        THEN UNION { FrameworksIn(lang, read_file_content(files_[i])) :
                        i \in {j \in DOMAIN files_ : LanguageOf(files_[j]) = lang} }
        ELSE {}

analyze_project_structure(files_) ==
    [ primary_language |-> primary_language(files_),
      has_tests        |-> \E i \in DOMAIN files_ : MatchesTestPattern(files_[i].name),
      frameworks       |-> detect_frameworks(files_) ]

\* The files explored: a name, whether open() succeeds, and the content.
ProjectFile(name, readable, content) ==
    [name |-> name, readable |-> readable, content |-> content]

ProjectFiles ==
    { ProjectFile("main.py", "ok", "pass"),
      ProjectFile("main.py", "ok", "from flask import Flask"),
      ProjectFile("main.py", "denied", "from flask import Flask"),
      ProjectFile("manage.py", "ok", "pass"),
      ProjectFile("manage.py", "denied", "pass"),
      ProjectFile("manage.py", "missing", "pass"),
      ProjectFile("app.js", "ok", "pass"),
      ProjectFile("app.js", "ok", "import React"),
      ProjectFile("main.go", "ok", "pass"),
      ProjectFile("main_test.go", "ok", "pass"),
      ProjectFile("go.mod", "ok", "pass") }

\* Files a project holds at most.
MaxProjectFiles == 3

\* The directory listings: every order of files with distinct names.
Projects ==
    { p \in SeqsUpTo(ProjectFiles, MaxProjectFiles) :
        \A i, j \in DOMAIN p : i # j => p[i].name # p[j].name }

InitAnalyzer ==
    /\ pc = "analyze"
    /\ project \in Projects
    /\ analysis = NoAnalysis
    /\ files = << >>
    /\ written = NoWritten
    /\ state = initial
    /\ snapshot = Absent
    /\ path = << >>
    /\ ensure_calls = 0
    /\ results = NoResults
    /\ NoCli
    /\ plan_raw = <<"{", "prd_md", "tasks", "}">>
    /\ plan_tasks = BatchPlanTasks
    /\ language = "python"
    /\ lint_env = FirstEnv /\ tests_env = FirstEnv /\ audit_env = FirstEnv

Analyze ==
    /\ pc = "analyze"
    /\ analysis' = analyze_project_structure(project)
    /\ pc' = "analyzed"
    /\ UNCHANGED <<state, path, ensure_calls, inputs, envs, results, cli, snapshot>>
    /\ UNCHANGED <<project, files, written>>

NextAnalyzer == Analyze

AnalyzerSpec == InitAnalyzer /\ [][NextAnalyzer]_vars

----------------------------------------------------------------------------
(* The file loop of dev_node (agents/dev.py:119-154)                       *)

\* One entry of data["files"]: its "path" (a string, a string that ends
\* with .json, null, or no such key), its "content" (a string, a dict, a
\* dict with one string value, a dict with one value that is not a string,
\* a list, or no such key) and whether the disk accepts the write.
FileInfo(p, c, d) == [path |-> p, content |-> c, disk |-> d]

FileInfos ==
    { FileInfo("str", "str", "ok"),
      FileInfo("str", "str", "fail"),
      FileInfo("json", "dict", "ok"),
      FileInfo("str", "dict", "ok"),
      FileInfo("str", "dict1_str", "ok"),
      FileInfo("str", "dict1_num", "ok"),
      FileInfo("json", "dict1_num", "ok"),
      FileInfo("str", "list", "ok"),
      FileInfo("missing", "str", "ok"),
      FileInfo("str", "missing", "ok"),
      FileInfo("null", "str", "ok"),
      FileInfo("null", "dict", "ok") }

\* Entries a payload holds at most.
MaxFiles == 3

IsDict(c) == c \in {"dict", "dict1_str", "dict1_num"}

\* dev.py:126-137: the type of the content handed to write_file_content.
Coerced(f) ==
    IF IsDict(f.content)
    THEN IF f.path = "json" THEN "str"
         ELSE IF f.content = "dict1_num" THEN "num" ELSE "str"
    ELSE f.content

\* dev.py:122-143 for one entry: "raise" when a statement of the loop body
\* raises (a key is missing, path is not a string), else whether
\* write_file_content returned True or False.
FileStep(f) ==
    IF f.path = "missing" \/ f.content = "missing"
    THEN "raise"                     \* KeyError, dev.py:122-123
    ELSE IF f.path = "null"
         THEN "raise"                \* AttributeError at dev.py:127, or
                                     \* TypeError at file_operations.py:20
         ELSE IF Coerced(f) # "str"
              THEN "false"           \* file_operations.py:23-26
              ELSE IF f.disk = "fail" THEN "false" ELSE "true"

RECURSIVE WriteFrom(_, _, _)
WriteFrom(fs, i, acc) ==
    IF i > Len(fs)
    THEN [acc EXCEPT !.setup = (acc.written # {})]
    ELSE LET step == FileStep(fs[i])
             seen == [acc EXCEPT !.attempted = Append(acc.attempted, i)]
         IN  CASE step = "raise" -> [seen EXCEPT !.aborted = TRUE]
               [] step = "true"  -> WriteFrom(fs, i + 1,
                                       [seen EXCEPT !.written = seen.written \cup {i}])
               [] step = "false" -> WriteFrom(fs, i + 1,
                                       [seen EXCEPT !.failed = seen.failed \cup {i}])

\* dev.py:120-154: the loop over data["files"] and the dependency setup.
write_files(fs) == WriteFrom(fs, 1, NoWritten)

InitDevFiles ==
    /\ pc = "files"
    /\ files \in SeqsUpTo(FileInfos, MaxFiles)
    /\ written = NoWritten
    /\ project = << >>
    /\ analysis = NoAnalysis
    /\ state = initial
    /\ snapshot = Absent
    /\ path = << >>
    /\ ensure_calls = 0
    /\ results = NoResults
    /\ NoCli
    /\ plan_raw = <<"{", "prd_md", "tasks", "}">>
    /\ plan_tasks = BatchPlanTasks
    /\ language = "python"
    /\ lint_env = FirstEnv /\ tests_env = FirstEnv /\ audit_env = FirstEnv

WriteFiles ==
    /\ pc = "files"
    /\ written' = write_files(files)
    /\ pc' = "files_done"
    /\ UNCHANGED <<state, path, ensure_calls, inputs, envs, results, cli, snapshot>>
    /\ UNCHANGED <<project, analysis, files>>

NextDevFiles == WriteFiles

DevFilesSpec == InitDevFiles /\ [][NextDevFiles]_vars

----------------------------------------------------------------------------
(* Properties of the batch pipeline *)

Last(seq) == seq[Len(seq)]

\* The entries of the log written by the three verifications.
VerificationLogs == {"Linter", "Tests", "pip-audit"}

\* Every verification executed so far has failed.
AllFailed ==
    \A i \in DOMAIN state.logs :
        state.logs[i].tag \in VerificationLogs => state.logs[i].n # 0

\* The gate of tests_next and of sec_next, as the transitions are specified.
TestsGate == (state.tests_ok /\ state.lint_ok) \/ state.dev_attempts >= 3

SecGate == state.sec_ok \/ state.dev_attempts >= 3

\* C1: once dev_attempts >= 3 neither tests_next nor sec_next routes back to
\* dev, whatever the flags are, and dev_attempts never exceeds 3.
C1_CeilingStopsRetries ==
    [][ /\ (pc \in {"tests_edge", "security_edge"} /\ state.dev_attempts >= 3)
              => pc' # "dev"
        /\ state'.dev_attempts <= 3 ]_vars

\* C1 witness: the third attempt has failed its audit and the run went on to pr.
C1_Witness ==
    /\ pc = "pr"
    /\ state.dev_attempts = 3
    /\ ~state.sec_ok
    /\ ~state.tests_ok

\* C2 as stated: pr is at the latest the 10th step execution of a run.
C2_PrWithinTen ==
    \A i \in DOMAIN path : path[i] = "pr" => i <= 10

\* C2 amended: pr is at the latest the 12th step execution of a run
\* (plan, design, three times dev-tests-security, pr), and no run has more
\* than 12 step executions.
C2_PrWithinTwelve ==
    /\ \A i \in DOMAIN path : path[i] = "pr" => i <= 12
    /\ Len(path) <= 12

\* C2 witness: a run whose pr is the 12th step execution.
C2_Witness ==
    /\ Len(path) = 12
    /\ path[12] = "pr"
    /\ pc = "END"

\* C3: when every step execution returns, the run executes pr and then
\* reaches END.
C3_Terminates ==
    <>(pc = "END" /\ Len(path) > 0 /\ Last(path) = "pr")

\* C3 witness: a run that retried twice has ended.
C3_Witness ==
    /\ pc = "END"
    /\ state.dev_attempts = 3
    /\ Last(path) = "pr"

\* C4 as stated: every entry into dev is followed by tests and then by
\* security.
C4_TwoVerifications ==
    \A i \in DOMAIN path :
        path[i] = "dev" =>
            /\ (i + 1 <= Len(path) => path[i + 1] = "tests")
            /\ (i + 2 <= Len(path) => path[i + 2] = "security")

\* C4 amended: every entry into dev is followed by tests; tests is followed
\* by security or, when the tests gate is closed, directly by the next dev;
\* security is entered only right after tests and is followed by dev or pr;
\* pr is entered only right after security.
C4_OneOrTwoVerifications ==
    \A i \in DOMAIN path :
        /\ (path[i] = "dev" /\ i < Len(path)) => path[i + 1] = "tests"
        /\ (path[i] = "tests" /\ i < Len(path)) => path[i + 1] \in {"security", "dev"}
        /\ (path[i] = "security" /\ i < Len(path)) => path[i + 1] \in {"dev", "pr"}
        /\ path[i] = "security" => (i > 1 /\ path[i - 1] = "tests")
        /\ path[i] = "pr" => (i > 1 /\ path[i - 1] = "security")
        /\ path[i] = "tests" => (i > 1 /\ path[i - 1] = "dev")

\* C4 witness: a run that went from tests straight back to dev and later
\* reached pr.
C4_Witness ==
    /\ pc = "END"
    /\ \E i \in DOMAIN path :
           /\ i + 2 <= Len(path)
           /\ path[i] = "dev" /\ path[i + 1] = "tests" /\ path[i + 2] = "dev"

\* C5: after tests, the graph moves to security iff (tests_ok and lint_ok) or
\* dev_attempts >= 3, and to dev otherwise.
C5_TestsSuccessor ==
    [][ pc = "tests_edge" =>
            /\ pc' \in {"security", "dev"}
            /\ (pc' = "security") <=> TestsGate ]_vars

\* C5 witness: tests passed, lint failed, and the graph went back to dev.
C5_Witness ==
    /\ pc = "dev"
    /\ Len(path) > 0 /\ Last(path) = "tests"
    /\ state.tests_ok /\ ~state.lint_ok

\* C6: after security, the graph moves to pr iff sec_ok or dev_attempts >= 3,
\* and to dev otherwise.
C6_SecuritySuccessor ==
    [][ pc = "security_edge" =>
            /\ pc' \in {"pr", "dev"}
            /\ (pc' = "pr") <=> SecGate ]_vars

\* C6 witness: the audit failed below the ceiling and the graph went back to
\* dev.
C6_Witness ==
    /\ pc = "dev"
    /\ Len(path) > 0 /\ Last(path) = "security"
    /\ ~state.sec_ok

\* C7 as stated: evaluating an edge predicate leaves every field of the
\* state, logs included, unchanged.
C7_EdgePredicatesReadOnly ==
    [][ (pc \in EdgePcs) => (state' = state) ]_vars

\* C8 as stated: every entry into dev increments dev_attempts by exactly one,
\* also when the step raises.
C8_IncrementOnEveryEntry ==
    [][ pc = "dev" => state'.dev_attempts = state.dev_attempts + 1 ]_vars

\* C9: dev_attempts never decreases, and only the dev step changes it.
C9_OnlyDevChangesAttempts ==
    [][ /\ state'.dev_attempts >= state.dev_attempts
        /\ (pc # "dev" => state'.dev_attempts = state.dev_attempts) ]_vars

\* C9 witness: tests and security have run after the second dev and the
\* count is still 2.
C9_Witness ==
    /\ pc = "security_edge"
    /\ state.dev_attempts = 2

\* C10: a run in which every verification fails every time ends with
\* dev_attempts = 3 and with pr executed.
C10_AllFailingEndsAtThree ==
    <>( \/ ~AllFailed
        \/ /\ pc = "END"
           /\ state.dev_attempts = 3
           /\ Last(path) = "pr" )

\* C10 witness: the end of a run in which lint, tests and the audit all
\* failed every time.
C10_Witness ==
    /\ pc = "END"
    /\ AllFailed
    /\ state.dev_attempts = 3
    /\ \E i \in DOMAIN state.logs : state.logs[i].tag = "pip-audit"

----------------------------------------------------------------------------
(* Branch and log *)

InPath(step) == \E i \in DOMAIN path : path[i] = step

IsPrefix(a, b) == Len(a) <= Len(b) /\ SubSeq(b, 1, Len(a)) = a

\* The steps whose code is in the source tree and that append to the log.
LoggingSteps == {"plan", "design", "dev", "tests", "security"}

\* C11: the branch field is empty until the first entry into dev; once it is
\* non-empty no step changes it, and ensure_branch is called at most once in
\* a run.
C11_BranchSetOnce ==
    [][ /\ (state.branch # "" => state'.branch = state.branch)
        /\ (state'.branch # state.branch => pc = "dev")
        /\ (~InPath("dev") => state.branch = "")
        /\ ensure_calls' <= 1 ]_vars

\* C11 witness: dev has been retried and ensure_branch was called once.
C11_Witness ==
    /\ pc = "dev_edge"
    /\ state.dev_attempts = 3
    /\ state.branch = "feat/auto-agent"
    /\ ensure_calls = 1

\* C12: the log is append-only: every transition keeps the old log as a
\* prefix of the new one, and every completed plan, design, dev, tests or
\* security step makes it strictly longer.
C12_LogAppendOnly ==
    [][ /\ IsPrefix(state.logs, state'.logs)
        /\ (pc \in LoggingSteps /\ pc' # "crashed")
               => Len(state'.logs) > Len(state.logs) ]_vars

\* C12 witness: a run that went through every step, retries and both ceiling
\* messages, with its log grown at each.
C12_Witness ==
    /\ pc = "pr"
    /\ state.dev_attempts = 3
    /\ Len(state.logs) >= 20

----------------------------------------------------------------------------
(* The plan step on malformed or incomplete backend output *)

\* The backend text parses, directly or after extraction, to something that
\* lacks a required field or is not a record.
ParsedWithoutRequiredFields ==
    /\ PlannerKind(plan_raw) \in {"direct", "extracted"}
    /\ ~PlannerValid(plan_raw)

WellFormedTasks(tasks) ==
    /\ Len(tasks) > 0
    /\ \A i \in DOMAIN tasks : DOMAIN tasks[i] = {"id", "title"}

\* C14 as stated: when the backend text parses but required fields are
\* absent, the plan step that received the text (it logged the raw response)
\* falls back and completes, leaving prd and tasks well-formed.
C14_MissingFieldsFallBack ==
    [][ (pc = "plan" /\ ParsedWithoutRequiredFields
                     /\ Len(state'.logs) > Len(state.logs))
            => /\ pc' = "design"
               /\ state'.prd # ""
               /\ WellFormedTasks(state'.tasks) ]_vars

\* C15 as stated: after the plan step the ids of state.tasks are pairwise
\* distinct.
C15_UniqueTaskIds ==
    pc = "design" =>
        \A i, j \in DOMAIN state.tasks :
            i # j => state.tasks[i].id # state.tasks[j].id

----------------------------------------------------------------------------
(* Verification tools                                                      *)

\* The languages a dispatch function has a recipe for.
Registered(f) ==
    CASE f = "run_project_tests"   -> DOMAIN test_runners
      [] f = "run_project_build"   -> DOMAIN build_runners
      [] f = "run_project_linting" -> DOMAIN linters
      [] OTHER                     -> RunnersLanguages

\* Every command of the recipe is missing on the machine.
Missing(env) == env.first.kind = "notfound" /\ env.second.kind = "notfound"

\* C16: when the external tool of a capability is missing, the capability
\* returns exit code 0, so the gate flag of the step (lint_ok, tests_ok,
\* sec_ok) is set to true and the run is not routed back to dev for that
\* reason alone.
C16_MissingToolPasses ==
    [][ /\ (pc = "security" /\ Missing(audit_env))
               => (pc' = "security_edge" /\ state'.sec_ok)
        /\ (pc = "tests" /\ language = "python" /\ Missing(lint_env))
               => state'.lint_ok
        /\ (pc = "tests" /\ language = "python" /\ Missing(tests_env))
               => state'.tests_ok ]_vars

\* C17: each of the six dispatch functions, called for a language it has no
\* recipe for, returns exit code 0 with the explanatory message and does not
\* raise.
C17_UnregisteredReturnsZero ==
    pc = "dispatched" =>
        \A f \in DispatchFunctions :
            language \notin Registered(f) =>
                results[f] = Result(0, "norunner")

\* C18: whatever way the invocation of the external command fails, the tests
\* step and the security step return normally with their flags set to false.
C18_NoInvocationFailureEscapes ==
    [][ /\ (pc = "security" /\ audit_env.first.kind # "exit")
               => (pc' = "security_edge" /\ ~state'.sec_ok)
        /\ (pc = "tests" /\ language = "python" /\ tests_env.first.kind # "exit")
               => (pc' = "tests_edge" /\ ~state'.tests_ok)
        /\ (pc = "tests" /\ language = "python" /\ lint_env.first.kind # "exit")
               => (pc' = "tests_edge" /\ ~state'.lint_ok) ]_vars

\* C19: the batch run always completes: no step of it ends the run with an
\* exception.
C19_BatchAlwaysCompletes == pc # "crashed"

----------------------------------------------------------------------------
(* Router and interactive loop                                             *)

\* No part of the text parses as a payload.
NoPayload(raw) ==
    \A i, j \in DOMAIN raw : ~json_loads(SubSeq(raw, i, j), RouterMembers).ok

\* C13: for every text the backend returns, route returns a result whose
\* intent is one of INTENTS and does not raise; a text without a recoverable
\* payload gives the help intent.
C13_RouteNeverRaises ==
    [][ (pc = "routing" /\ route_raw # ChatFailed)
            => /\ pc' = "selected"
               /\ intent' \in INTENTS
               /\ (NoPayload(route_raw) => intent' = "help") ]_vars

\* C20: a step function that raises does not end the interactive loop: the
\* loop prints the error and is back at the prompt, a step that returns
\* prints ok, and the loop is left only through an exit command or the end
\* of input, never from a step.
C20_StepErrorReturnsToPrompt ==
    [][ /\ (pc = "step")
               => /\ pc' = "prompt"
                  /\ printed' \in {"ok", "error"}
                  /\ \E o \in StepOutcomes(intent, state) :
                         o.state = state' /\ (o.raised <=> printed' = "error")
        /\ (pc' = "exited")
               => (pc = "prompt" /\ line'.kind \in {"eof", "exit"}) ]_vars

\* An error was printed for a step that raised, and the loop has since read
\* another line and selected a step for it.
C20_Witness == pc = "step" /\ printed = "error"

\* The intent a forced command should give: the word after the slash when it
\* names a step, status or help, and help otherwise.
ForcedIntent(word) == IF word \in INTENTS THEN word ELSE "help"

\* C21: a line that starts with '/' never reaches the router and yields the
\* intent named by the word after the slash, or help when the word names no
\* intent or is missing; '/status' prints the flags and leaves the state
\* unchanged.
C21_ForcedCommandBypassesRouter ==
    [][ /\ (pc = "prompt" /\ line'.kind = "slash" /\ lines' = lines + 1)
               => /\ pc' = "selected"
                  /\ intent' = ForcedIntent(line'.word)
                  /\ route_raw' = route_raw
        /\ (pc = "selected" /\ line.kind = "slash" /\ intent = "status")
               => /\ pc' = "prompt"
                  /\ printed' = "status"
                  /\ state' = state ]_vars

\* C28: in interactive mode every invocation of the dev step adds one to
\* dev_attempts, counted from 0 when the session state has no such key, and
\* nothing stops the step at the retry ceiling.
C28_InteractiveDevCounts ==
    [][ (pc = "step" /\ intent = "dev")
            => Get(state', "dev_attempts", 0) = Get(state, "dev_attempts", 0) + 1 ]_vars

----------------------------------------------------------------------------
(* Order of the steps and freshness of the flags in a batch run            *)

Count(step) == Cardinality({i \in DOMAIN path : path[i] = step})

\* C26: plan and design are the first two steps and execute once; every dev
\* is followed by tests before any other step and tests has no other
\* predecessor; security follows the tests of the same attempt, at most once
\* per dev; pr comes after security and nothing follows it; a run that ends
\* has executed pr once, as its last step, and tests once per dev.
C26_StepOrder ==
    /\ \A i \in DOMAIN path :
          /\ (path[i] = "plan" <=> i = 1)
          /\ (path[i] = "design" <=> i = 2)
          /\ (i = 3 => path[i] = "dev")
          /\ (path[i] = "dev" /\ i < Len(path)) => path[i + 1] = "tests"
          /\ (path[i] = "tests") => (i > 1 /\ path[i - 1] = "dev")
          /\ (path[i] = "security") => (i > 1 /\ path[i - 1] = "tests")
          /\ (path[i] = "pr") => (i = Len(path) /\ path[i - 1] = "security")
    /\ Count("security") <= Count("tests")
    /\ Count("tests") <= Count("dev")
    /\ (pc = "END") => /\ Last(path) = "pr"
                       /\ Count("pr") = 1
                       /\ Count("tests") = Count("dev")

\* C26 witness: a finished run in which one attempt went from tests straight
\* back to dev, so that security executed less often than tests.
C26_Witness ==
    pc = "END" /\ Count("dev") >= 2 /\ Count("security") < Count("tests")

\* The position in the log of the last entry with the given tag, 0 if none.
LastLog(tag) ==
    LET S == {i \in DOMAIN state.logs : state.logs[i].tag = tag}
    IN  IF S = {} THEN 0 ELSE CHOOSE i \in S : \A j \in S : j <= i

\* The flag equals the result of the last verification with that log entry,
\* and that verification ran after the last entry into dev.
Fresh(flag, tag) ==
    /\ LastLog(tag) > LastLog("Dev: Starting development")
    /\ LastLog("Dev: Starting development") > 0
    /\ flag = (state.logs[LastLog(tag)].n = 0)

\* C27: when pr is entered, dev_attempts >= 3 or the three flags are true,
\* and each flag is the result of a verification executed after the most
\* recent entry into dev.
C27_PrGateAndFreshFlags ==
    pc = "pr" =>
        /\ \/ state.dev_attempts >= 3
           \/ state.lint_ok /\ state.tests_ok /\ state.sec_ok
        /\ Fresh(state.lint_ok, "Linter")
        /\ Fresh(state.tests_ok, "Tests")
        /\ Fresh(state.sec_ok, "pip-audit")

\* C27 witness: pr is entered below the ceiling with the three flags true
\* after an earlier attempt whose lint had failed.
C27_Witness ==
    /\ pc = "pr"
    /\ state.dev_attempts = 2
    /\ state.lint_ok /\ state.tests_ok /\ state.sec_ok
    /\ \E i \in DOMAIN state.logs :
          state.logs[i].tag = "Linter" /\ state.logs[i].n # 0

----------------------------------------------------------------------------
(* Sessions                                                                *)

\* C25: opening a session loads the snapshot when a non-empty one is at the
\* session path, returns it unchanged and writes nothing; in every other
\* case it initializes the state with the given repo_path and request and
\* the defaults of the other fields and saves it; a later Session on the
\* same path loads an equal record.
C25_LoadElseInitialize ==
    [][ /\ (pc = "session" /\ snapshot.kind = "json" /\ DOMAIN snapshot.doc # {})
               => /\ pc' = "opened"
                  /\ state' = json_load(snapshot.doc)
                  /\ snapshot' = snapshot
        /\ (pc = "session" /\ ~(snapshot.kind = "json" /\ DOMAIN snapshot.doc # {}))
               => /\ pc' = "opened"
                  /\ \E repo_path \in RepoPaths, request \in Requests :
                        state' = [session_initial EXCEPT !.repo_path = repo_path,
                                                         !.request = request]
                  /\ snapshot' = SessionFile(state')
        /\ (pc = "opened") => (pc' = "resumed" /\ state' = state) ]_vars

\* C29: a step that raises is not rolled back and is not saved: the state
\* in memory is the one the step left when it raised, the snapshot is the
\* one of before, and a step that returns writes the snapshot of the state
\* it returned; the snapshot changes in no other way.
C29_FailedStepKeptNotSaved ==
    [][ /\ (pc = "step" /\ printed' = "error")
               => /\ snapshot' = snapshot
                  /\ \E o \in StepOutcomes(intent, state) : o.raised /\ state' = o.state
        /\ (pc = "step" /\ printed' = "ok")
               => (snapshot' = SessionFile(state') /\ Session(snapshot').state = state')
        /\ (pc # "step") => (snapshot' = snapshot /\ state' = state) ]_vars

\* C29 witness: a step has raised after appending to the log, the loop is
\* back at the prompt, and the state in memory differs from the snapshot.
C29_Witness ==
    /\ pc = "prompt"
    /\ printed = "error"
    /\ Len(state.logs) > 0
    /\ Session(snapshot).state # state

----------------------------------------------------------------------------
(* Project analyzer                                                        *)

\* The language with the highest tally, ties decided by the order of the
\* static extension table.
FirstInTable(files_) ==
    IF Tallied(files_) = {}
    THEN "unknown"
    ELSE CHOOSE l \in Tallied(files_) :
             \A m \in Tallied(files_) :
                 \/ Tally(files_, m) < Tally(files_, l)
                 \/ /\ Tally(files_, m) = Tally(files_, l)
                    /\ TableOrder(l) <= TableOrder(m)

\* C22: primary_language is the language with the highest tally, and among
\* languages with the same highest tally the one that comes first in the
\* static extension table, whatever the order of the files.
C22_PrimaryByTallyThenTable ==
    pc = "analyzed" => analysis.primary_language = FirstInTable(project)

\* The project holds only .go files and a go.mod.
GoOnly ==
    /\ \A i \in DOMAIN project :
          project[i].name = "go.mod" \/ get_file_extension(project[i].name) = ".go"
    /\ \E i \in DOMAIN project : project[i].name = "go.mod"
    /\ \E i \in DOMAIN project : get_file_extension(project[i].name) = ".go"

\* C23: for a directory of .go files and a go.mod, whatever the names of the
\* .go files, primary_language is go and has_tests is false.
C23_GoProjectHasNoTests ==
    (pc = "analyzed" /\ GoOnly)
        => (analysis.primary_language = "go" /\ ~analysis.has_tests)

\* The project with every file that cannot be read replaced by a readable
\* file without content.
WithoutUnreadable(files_) ==
    [i \in DOMAIN files_ |->
        IF files_[i].readable = "ok"
        THEN files_[i]
        ELSE ProjectFile(files_[i].name, "ok", "")]

\* C24: a file that cannot be read adds nothing to the frameworks: they are
\* those of the same project without the content of that file.
C24_UnreadableCountsAsAbsent ==
    pc = "analyzed"
        => analysis.frameworks = detect_frameworks(WithoutUnreadable(project))

----------------------------------------------------------------------------
(* File writes of the dev step                                             *)

\* C30: every entry of the generated file list is attempted, in order; an
\* entry whose write fails is logged as failed and the next one is tried;
\* content that is not a string is not written; the dependency setup runs
\* only when a file was written.
C30_FailedWriteSkipsOneFile ==
    pc = "files_done" =>
        /\ written.attempted = [i \in 1..Len(files) |-> i]
        /\ ~written.aborted
        /\ written.written \cup written.failed = 1..Len(files)
        /\ written.written \cap written.failed = {}
        /\ \A i \in written.written : Coerced(files[i]) = "str"
        /\ written.setup => written.written # {}

====
